---- MODULE Spec2Model ----
(***************************************************************************)
(* Model of src/brewfile_backup.py: the run_backup orchestration, the      *)
(* ConfigManager state file (load / save / update), the GistManager remote *)
(* calls (gist_exists / create_gist / update_gist) and the remote service  *)
(* they talk to.  One run of run_backup is a sequence of steps, one per    *)
(* blocking external call; the outcome of each external call is chosen     *)
(* nondeterministically among the outcomes the code distinguishes.         *)
(***************************************************************************)
EXTENDS Integers, Sequences, FiniteSets, TLC

(* ------------------------------ bounds --------------------------------- *)
\* number of runs of run_backup in one behaviour that starts from any state
\* file (Spec)
MaxRuns == 1
\* number of runs in one behaviour that starts without a state file
\* (SpecFresh)
MaxFreshRuns == 2
\* number of distinct Brewfile contents the generator can produce
NumContents == 2
\* changes made to the state file by someone other than run_backup
MaxEdits == 1

(* --------------------------- exit codes -------------------------------- *)
EXIT_SUCCESS == 0
EXIT_AUTH_ERROR == 1
EXIT_BREW_ERROR == 2
EXIT_API_ERROR == 3
EXIT_CONFIG_ERROR == 4
EXIT_UNKNOWN_ERROR == 99
\* exit_code of a run that has not returned yet
NoExit == -1

(* ------------------------------ values --------------------------------- *)
\* Every JSON value of the state file is a record [k, n]: k is the kind of
\* string, n the number that distinguishes strings of that kind.
Val(k, n) == [k |-> k, n |-> n]
\* dict.get(key) on a missing key
None == Val("None", 0)
\* the empty string ""
EmptyStr == Val("", 0)
\* a gist id, data['id'] of the service's answer
GistId(n) == Val("id", n)
\* data['html_url'] of the service's answer for gist n
HtmlUrl(n) == Val("html_url", n)
\* a key the program does not know, with some value
ExtraVal == Val("extra", 0)
\* datetime.utcnow().isoformat() + 'Z' at clock value t
Timestamp(t) == Val("utc", t)

Contents == 1..NumContents
\* gist 0 is the one a state file found at start may name; 1.. are created,
\* at most one in each run
Ids == 0..(MaxRuns + MaxFreshRuns)

\* f"https://gist.github.com/{gist_id}"
DefaultUrl(gist_id) == Val("https://gist.github.com/", gist_id.n)

\* hashlib.sha256(content.encode('utf-8')).hexdigest()
_calculate_hash(content) == Val("sha256", content)

\* `is not None` in place of truthiness: the empty string counts as a value
Truthy_not_none(v) == v.k # "None"

\* Python truthiness of a str-or-None value
Truthy(v) == v.k \notin {"None", ""}

(* --------------------------- state file -------------------------------- *)
\* what a path of the file system holds: kind is "absent" (no file),
\* "corrupt" (not a JSON object), "partial" (opened for writing, json.dump
\* not finished) or "dict" (a JSON object with these keys)
File(kind, id, url, hash, backup, extra) ==
    [kind |-> kind, gist_id |-> id, gist_url |-> url, last_hash |-> hash,
     last_backup |-> backup, extra |-> extra]

NoFile == File("absent", None, None, None, None, None)
Corrupt == File("corrupt", None, None, None, None, None)
Partial == File("partial", None, None, None, None, None)

Dict(id, url, hash, backup, extra) ==
    File("dict", id, url, hash, backup, extra)

\* the empty dict {}
EmptyDict == Dict(None, None, None, None, None)

\* what the file holds is handed on as it is, valid or not
load_unvalidated(file) == file

\* ConfigManager.load: {} when the file is missing, unreadable or not a dict
load(file) == IF file.kind = "dict" THEN file ELSE EmptyDict

\* a URL the file already holds is kept, whatever gist the run uploaded to
merge_keeps_url(config, id, url, hash, backup) ==
    Dict(id, IF config.gist_url # None THEN config.gist_url ELSE url,
         hash, backup, config.extra)

\* the hash of the record is left as it was
merge_keeps_hash(config, id, url, hash, backup) ==
    Dict(id, url, config.last_hash, backup, config.extra)

\* config.update(kwargs) of ConfigManager.update, with run_backup's four keys
merge(config, id, url, hash, backup) ==
    Dict(id, url, hash, backup, config.extra)

(* ------------------------- credential provider ------------------------- *)
\* what the two credential sources can hold
CliStates == {"missing", "not_authenticated", "status_timeout", "nonzero",
              "token_timeout", "blank", "token"}
EnvStates == {"unset", "blank", "token"}

\* GitHubAuth._try_github_cli: the token only when gh exists, is
\* authenticated and prints a non-blank token with status 0
_try_github_cli(cli) == IF cli = "token" THEN Val("gh_token", 0) ELSE None

\* GitHubAuth._try_environment_variable: the stripped variable, if non-empty
_try_environment_variable(env) ==
    IF env = "token" THEN Val("env_token", 0) ELSE None

\* the environment variable is tried first, the CLI after it
get_token_env_first(cli, env) ==
    IF Truthy(_try_environment_variable(env))
    THEN _try_environment_variable(env)
    ELSE _try_github_cli(cli)

\* what a run finds in a credential source: what the machine holds, or
\* anything when the source is left open ("any")
Found(source, states) == IF source = "any" THEN states ELSE {source}

\* GitHubAuth.get_token: the CLI first, then the environment; None stands
\* for raising AuthenticationError
get_token(cli, env) ==
    IF Truthy(_try_github_cli(cli)) THEN _try_github_cli(cli)
    ELSE IF Truthy(_try_environment_variable(env))
         THEN _try_environment_variable(env)
         ELSE None

(* ----------------------------- remote calls ---------------------------- *)
\* what GET /gists/{id} can come to: a status 200, 404 or another one, a
\* timeout, or another requests exception
Responses == {"200", "404", "other", "timeout", "network_error"}

\* every answer but 404 is taken for an existing gist
gist_exists_unless_404(resp) == resp # "404"

\* GistManager.gist_exists: True for a 200 answer alone
gist_exists(resp) == resp = "200"

\* ConfigurationError caught with the API errors of the inner try
ExitFor_config_as_api(exc) ==
    CASE exc = "AuthenticationError" -> EXIT_AUTH_ERROR
      [] exc = "BrewfileGenerationError" -> EXIT_BREW_ERROR
      [] exc = "GistAPIError" -> EXIT_API_ERROR
      [] exc = "ConfigurationError" -> EXIT_API_ERROR
      [] OTHER -> EXIT_UNKNOWN_ERROR

\* no except clause for BrewfileGenerationError: it falls to `except Exception`
ExitFor_generation_uncaught(exc) ==
    CASE exc = "AuthenticationError" -> EXIT_AUTH_ERROR
      [] exc = "GistAPIError" -> EXIT_API_ERROR
      [] exc = "ConfigurationError" -> EXIT_CONFIG_ERROR
      [] OTHER -> EXIT_UNKNOWN_ERROR

\* the except clauses of run_backup: the exit code of each exception class
ExitFor(exc) ==
    CASE exc = "AuthenticationError" -> EXIT_AUTH_ERROR
      [] exc = "BrewfileGenerationError" -> EXIT_BREW_ERROR
      [] exc = "GistAPIError" -> EXIT_API_ERROR
      [] exc = "ConfigurationError" -> EXIT_CONFIG_ERROR
      [] OTHER -> EXIT_UNKNOWN_ERROR

\* the stored id never used: every upload creates a gist
route_always_create(gist_id, exists) == "create"

\* the branch taken on the stored id alone, the existence check dropped
route_unchecked(gist_id, exists) ==
    IF Truthy(gist_id) THEN "update" ELSE "create"

\* `if gist_id and gist_manager.gist_exists(gist_id)`: update the gist the
\* state file names when it exists, create one otherwise
route(gist_id, exists) ==
    IF Truthy(gist_id) /\ exists THEN "update" ELSE "create"

\* the comparison without the flag: equal hashes always skip
unchanged_force_ignored(force, last_hash, current_hash) ==
    last_hash = current_hash

\* the comparison with the flag taken the wrong way round
unchanged_force_inverted(force, last_hash, current_hash) ==
    force /\ last_hash = current_hash

\* `not force and last_hash == current_hash`
unchanged(force, last_hash, current_hash) ==
    ~force /\ last_hash = current_hash

\* the URL always rebuilt from the id, the stored one dropped
get_gist_url_rebuilt(config, gist_id) == DefaultUrl(gist_id)

\* config.get('gist_url', f"https://gist.github.com/{gist_id}")
get_gist_url(config, gist_id) ==
    IF config.gist_url = None THEN DefaultUrl(gist_id) ELSE config.gist_url

(* ------------------------------- state --------------------------------- *)
VARIABLES
    config_file,  \* ~/.config/brewfile-backup/config.json
    temp_file,    \* config.tmp, config_file.with_suffix('.tmp')
    gists,        \* the service: gists[n] is the content of gist n, 0 if none
    next_id,      \* the id the service gives the next gist it creates
    clock,        \* runs started so far: what datetime.utcnow() reads
    runs_left,    \* runs the behaviour may still start
    run,          \* run[p]: the local variables of process p's run_backup
    env           \* history: what has happened around the runs so far

vars == <<config_file, temp_file, gists, next_id, clock, runs_left, run, env>>

\* the processes that may run run_backup; Spec runs process 1 alone
Procs == {1, 2}

\* run_backup not called yet
IdleRun ==
    [pc |-> "idle", force |-> FALSE, dry_run |-> FALSE, config |-> EmptyDict,
     content |-> 0, current_hash |-> None, gist_id |-> None,
     gist_url |-> None, new_config |-> EmptyDict, exit_code |-> NoExit,
     terminal |-> "none", trace |-> <<>>, calls |-> <<>>, before |-> NoFile,
     token |-> None, fd |-> "none", renamed |-> NoFile]

\* a remote call made by a run: op is "exists", "create" or "update"; id the
\* gist it names (for create: the gist the service created, -1 if none);
\* result what the call gave its caller: "True" or "False" for exists, and
\* for create and update "ok" or the class of the exception raised
Call(op, id, result) == [op |-> op, id |-> id, result |-> result]

\* the run moves to the step `pc`
Goto(r, pc) == [r EXCEPT !.pc = pc, !.trace = Append(@, pc)]

\* `return code` of run_backup, the run ending in `terminal`
Return(r, code, terminal) ==
    [Goto(r, "returned") EXCEPT !.exit_code = code, !.terminal = terminal]

\* an exception of class exc reaches run_backup's except clauses
Raise(r, exc) == Return(r, ExitFor(exc), exc)

\* state files a run may find: any of the four keys missing or present
PriorFiles ==
    {NoFile, Corrupt} \cup
    {Dict(id, url, hash, IF hash = None THEN None ELSE Timestamp(0), extra) :
        id \in {None, EmptyStr, GistId(0)},
        url \in {None, HtmlUrl(0)},
        hash \in {None} \cup {_calculate_hash(c) : c \in Contents},
        extra \in {None, ExtraVal}}

NoGists == [n \in Ids |-> 0]

\* deleted: a gist was deleted by someone else; lied: gist_exists answered
\* False for a gist that exists; write_failed: save raised; creates: calls
\* of create_gist so far; created: the ids create_gist has returned; gh and
\* GITHUB_TOKEN: the two credential sources of the machine, "any" when they
\* may hold something else at every run; done_hash: the hash uploaded by the
\* last run that returned from its upload with EXIT_SUCCESS; edits: changes
\* of the state file by someone else so far; prev_hash: the hash the run
\* before the current one uploaded, None when it did not return from an
\* upload with EXIT_SUCCESS; unacked: the service applied an update whose
\* call then raised (a timeout after the request went through); mode and
\* temp_mode: the permissions of the state file and of the temporary file
EnvInit == [deleted |-> FALSE, lied |-> FALSE, write_failed |-> FALSE,
            creates |-> 0, created |-> {}, gh |-> "any",
            GITHUB_TOKEN |-> "any", done_hash |-> None, edits |-> 0,
            prev_hash |-> None, unacked |-> FALSE, mode |-> "none",
            temp_mode |-> "none"]

\* the permissions open(path, 'w') gives a file it creates: 0666 less the
\* umask of the process, which is the usual 022 on the machines modelled
CreatedModes == {"0644"}

\* a state file that is there was left by a run that ended with its chmod
EnvFor(file) ==
    [EnvInit EXCEPT !.mode = IF file = NoFile THEN "none" ELSE "0600"]

\* any state file holding no other keys than run_backup's own; gist 0 may
\* exist on the service when the file names it
Init ==
    /\ config_file \in {file \in PriorFiles : file.extra = None}
    /\ temp_file = NoFile
    /\ gists \in {NoGists} \cup
                 {[NoGists EXCEPT ![0] = c] :
                     c \in IF config_file.gist_id = GistId(0)
                           THEN Contents ELSE {}}
    /\ next_id = 1
    /\ clock = 0
    /\ runs_left = MaxRuns
    /\ run = [p \in Procs |-> IdleRun]
    /\ env = EnvFor(config_file)

(* --------------------------- run_backup -------------------------------- *)
\* main(): run_backup(force, dry_run) is called
StartRun(p) ==
    /\ run[p].pc \in {"idle", "returned", "crashed"}
    /\ runs_left > 0
    /\ \E force \in BOOLEAN, dry_run \in BOOLEAN :
         run' = [run EXCEPT ![p] =
                   [Goto(IdleRun, "init") EXCEPT !.force = force,
                                                !.dry_run = dry_run,
                                                !.before = config_file]]
    /\ runs_left' = runs_left - 1
    /\ clock' = clock + 1
    /\ env' = [env EXCEPT !.prev_hash = IF run[p].terminal = "DONE"
                                        THEN run[p].current_hash ELSE None]
    /\ UNCHANGED <<config_file, temp_file, gists, next_id>>

\* ConfigManager() and config_manager.load(): _ensure_config_dir may raise
\* ConfigurationError; load never raises
LoadConfig(p) ==
    /\ run[p].pc = "init"
    /\ \E ok \in BOOLEAN :
         run' = [run EXCEPT ![p] =
                   IF ok THEN [Goto(@, "auth") EXCEPT !.config = load(config_file)]
                   ELSE Raise(@, "ConfigurationError")]
    /\ UNCHANGED <<config_file, temp_file, gists, next_id, clock, runs_left, env>>

\* the credential is not asked for before the Brewfile is generated
Authenticate_deferred(p) ==
    /\ run[p].pc = "auth"
    /\ run' = [run EXCEPT ![p] = Goto(@, "generate")]
    /\ UNCHANGED <<config_file, temp_file, gists, next_id, clock, runs_left, env>>

\* Step 1: GitHubAuth.get_token()
Authenticate(p) ==
    /\ run[p].pc = "auth"
    /\ \E cli \in Found(env.gh, CliStates),
          e \in Found(env.GITHUB_TOKEN, EnvStates) :
         run' = [run EXCEPT ![p] =
                   IF get_token(cli, e) = None
                   THEN Raise(@, "AuthenticationError")
                   ELSE [Goto(@, "generate") EXCEPT
                           !.token = get_token(cli, e)]]
    /\ UNCHANGED <<config_file, temp_file, gists, next_id, clock, runs_left, env>>

\* Step 2: generator.generate(): a content and its hash, or
\* BrewfileGenerationError
Generate(p) ==
    /\ run[p].pc = "generate"
    /\ \/ \E c \in Contents :
            run' = [run EXCEPT ![p] =
                      [Goto(@, "compare") EXCEPT !.content = c,
                                                 !.current_hash = _calculate_hash(c)]]
       \/ run' = [run EXCEPT ![p] = Raise(@, "BrewfileGenerationError")]
    /\ UNCHANGED <<config_file, temp_file, gists, next_id, clock, runs_left, env>>

\* Step 3: the hash of the last backup against the new one
Compare(p) ==
    /\ run[p].pc = "compare"
    /\ run' = [run EXCEPT ![p] =
                 IF unchanged(@.force, @.config.last_hash, @.current_hash)
                 THEN Return(@, EXIT_SUCCESS, "SKIPPED")
                 ELSE Goto(@, "dry_run")]
    /\ UNCHANGED <<config_file, temp_file, gists, next_id, clock, runs_left, env>>

\* the dry-run flag is not looked at: the upload goes ahead
DryRunGate_ignored(p) ==
    /\ run[p].pc = "dry_run"
    /\ run' = [run EXCEPT ![p] = Goto(@, "resolve")]
    /\ UNCHANGED <<config_file, temp_file, gists, next_id, clock, runs_left, env>>

\* the gate stands after the routing: a dry run queries exists for the
\* stored gist id and only then returns
DryRunGate_after_routing(p) ==
    /\ run[p].pc = "dry_run"
    /\ run' = [run EXCEPT ![p] =
                 IF ~@.dry_run THEN Goto(@, "resolve")
                 ELSE [Return(Goto(@, "resolve"), EXIT_SUCCESS,
                              "SKIPPED_DRY_RUN")
                         EXCEPT !.calls =
                           IF Truthy(run[p].config.gist_id)
                           THEN Append(@, Call("exists",
                                               run[p].config.gist_id.n,
                                               "False"))
                           ELSE @]]
    /\ UNCHANGED <<config_file, temp_file, gists, next_id, clock, runs_left, env>>

\* `if dry_run: ... return EXIT_SUCCESS`
DryRunGate(p) ==
    /\ run[p].pc = "dry_run"
    /\ run' = [run EXCEPT ![p] =
                 IF @.dry_run THEN Return(@, EXIT_SUCCESS, "SKIPPED_DRY_RUN")
                 ELSE Goto(@, "resolve")]
    /\ UNCHANGED <<config_file, temp_file, gists, next_id, clock, runs_left, env>>

\* the answers GET /gists/{id} can give: 200 only for a gist that exists;
\* a timeout, a network error or another status whether it exists or not
ExistsResponses(n) ==
    (IF gists[n] # 0 THEN {"200"} ELSE {"404"})
        \cup {"other", "timeout", "network_error"}

\* gist_exists is called whether a gist id is stored or not
Resolve_always_queries(p) ==
    /\ run[p].pc = "resolve"
    /\ LET gist_id == run[p].config.gist_id IN
         \E resp \in ExistsResponses(gist_id.n) :
           run' = [run EXCEPT ![p] =
                     [Goto(@, route(gist_id, gist_exists(resp)))
                        EXCEPT !.gist_id = gist_id,
                               !.calls = Append(@,
                                  Call("exists", gist_id.n,
                                       IF gist_exists(resp)
                                       THEN "True" ELSE "False"))]]
    /\ UNCHANGED <<config_file, temp_file, gists, next_id, clock, runs_left, env>>

\* `gist_id = config.get('gist_id')` and
\* `if gist_id and gist_manager.gist_exists(gist_id)`
Resolve(p) ==
    /\ run[p].pc = "resolve"
    /\ LET gist_id == run[p].config.gist_id IN
         IF Truthy(gist_id)
         THEN \E resp \in ExistsResponses(gist_id.n) :
                /\ run' = [run EXCEPT ![p] =
                             [Goto(@, route(gist_id, gist_exists(resp)))
                                EXCEPT !.gist_id = gist_id,
                                       !.calls = Append(@,
                                          Call("exists", gist_id.n,
                                               IF gist_exists(resp)
                                               THEN "True" ELSE "False"))]]
                /\ env' = [env EXCEPT !.lied =
                             @ \/ (gist_exists(resp) # (gists[gist_id.n] # 0))]
         ELSE /\ run' = [run EXCEPT ![p] =
                           [Goto(@, route(gist_id, FALSE))
                              EXCEPT !.gist_id = gist_id]]
              /\ env' = env
    /\ UNCHANGED <<config_file, temp_file, gists, next_id, clock, runs_left>>

\* update_gist returns without the service having taken the content
UpdateGist_not_applied(p) ==
    /\ run[p].pc = "update"
    /\ run' = [run EXCEPT ![p] =
                 [Goto(@, "persist") EXCEPT
                    !.gist_url = get_gist_url(run[p].config, run[p].gist_id),
                    !.calls = Append(@, Call("update", run[p].gist_id.n,
                                             "ok"))]]
    /\ UNCHANGED <<config_file, temp_file, gists, next_id, clock, runs_left, env>>

\* an update that fails falls back to create_gist
UpdateGist_fallback(p) ==
    /\ run[p].pc = "update"
    /\ run' = [run EXCEPT ![p] =
                 [Goto(@, "create") EXCEPT
                    !.calls = Append(@, Call("update", run[p].gist_id.n,
                                             "GistAPIError"))]]
    /\ UNCHANGED <<config_file, temp_file, gists, next_id, clock, runs_left, env>>

\* gist_manager.update_gist(gist_id, content) and the gist_url that follows:
\* 200 updates the gist; any other answer raises GistAPIError, and a timeout
\* may come after the service applied the update
UpdateGist(p) ==
    /\ run[p].pc = "update"
    /\ LET n == run[p].gist_id.n IN
         \/ /\ gists[n] # 0
            /\ gists' = [gists EXCEPT ![n] = run[p].content]
            /\ \/ /\ run' = [run EXCEPT ![p] =
                               [Goto(@, "persist") EXCEPT
                                  !.gist_url = get_gist_url(run[p].config, run[p].gist_id),
                                  !.calls = Append(@, Call("update", n, "ok"))]]
                  /\ env' = env
               \/ /\ run' = [run EXCEPT ![p] =
                               [Raise(@, "GistAPIError") EXCEPT
                                  !.calls = Append(@, Call("update", n, "GistAPIError"))]]
                  /\ env' = [env EXCEPT !.unacked = TRUE]
         \/ /\ gists' = gists
            /\ env' = env
            /\ run' = [run EXCEPT ![p] =
                         [Raise(@, "GistAPIError") EXCEPT
                            !.calls = Append(@, Call("update", n, "GistAPIError"))]]
    /\ UNCHANGED <<config_file, temp_file, next_id, clock, runs_left>>

\* gist_manager.create_gist(content): 201 with id and html_url; 201 with a
\* body that lacks them (KeyError); any other answer raises GistAPIError, and
\* a timeout may come after the service created the gist
\* session.post without its timeout: the request never returns
CreateGist_blocks(p) ==
    /\ run[p].pc = "create"
    /\ UNCHANGED vars

CreateGist(p) ==
    /\ run[p].pc = "create"
    /\ \/ /\ gists' = [gists EXCEPT ![next_id] = run[p].content]
          /\ next_id' = next_id + 1
          /\ \/ /\ env' = [env EXCEPT !.creates = @ + 1,
                                      !.created = @ \cup {next_id}]
                /\ run' = [run EXCEPT ![p] =
                             [Goto(@, "persist") EXCEPT
                                !.gist_id = GistId(next_id),
                                !.gist_url = HtmlUrl(next_id),
                                !.calls = Append(@, Call("create", next_id, "ok"))]]
             \/ /\ env' = [env EXCEPT !.creates = @ + 1]
                /\ \E exc \in {"KeyError", "GistAPIError"} :
                     run' = [run EXCEPT ![p] =
                               [Raise(@, exc) EXCEPT
                                  !.calls = Append(@, Call("create", next_id, exc))]]
       \/ /\ UNCHANGED <<gists, next_id>>
          /\ env' = [env EXCEPT !.creates = @ + 1]
          /\ run' = [run EXCEPT ![p] =
                       [Raise(@, "GistAPIError") EXCEPT
                          !.calls = Append(@, Call("create", -1, "GistAPIError"))]]
    /\ UNCHANGED <<config_file, temp_file, clock, runs_left>>

(* ---------------------- ConfigManager.update / save -------------------- *)
\* the record is built from the configuration read at the start of the run
Persist_from_prior(p) ==
    /\ run[p].pc = "persist"
    /\ run' = [run EXCEPT ![p] =
                 [Goto(@, "save") EXCEPT !.new_config =
                    merge(run[p].config, run[p].gist_id, run[p].gist_url,
                          run[p].current_hash, Timestamp(clock))]]
    /\ UNCHANGED <<config_file, temp_file, gists, next_id, clock, runs_left, env>>

\* config_manager.update(gist_id=, gist_url=, last_hash=, last_backup=):
\* `config = self.load()` and `config.update(kwargs)`
Persist(p) ==
    /\ run[p].pc = "persist"
    /\ run' = [run EXCEPT ![p] =
                 [Goto(@, "save") EXCEPT !.new_config =
                    merge(load(config_file), run[p].gist_id, run[p].gist_url,
                          run[p].current_hash, Timestamp(clock))]]
    /\ UNCHANGED <<config_file, temp_file, gists, next_id, clock, runs_left, env>>

\* save: self._ensure_config_dir(), outside the try: its ConfigurationError
\* leaves save at once
SaveEnsureDir(p) ==
    /\ run[p].pc = "save"
    /\ \E ok \in BOOLEAN :
         /\ run' = [run EXCEPT ![p] =
                      IF ok THEN Goto(@, "save_open")
                      ELSE Raise(@, "ConfigurationError")]
         /\ env' = [env EXCEPT !.write_failed = @ \/ ~ok]
    /\ UNCHANGED <<config_file, temp_file, gists, next_id, clock, runs_left>>

\* the record is written straight to the target path, no temporary file
SaveOpen_in_place(p) ==
    /\ run[p].pc = "save_open"
    /\ config_file' = Partial
    /\ temp_file' = NoFile
    /\ run' = [run EXCEPT ![p] = Goto(@, "save_dump")]
    /\ UNCHANGED <<gists, next_id, clock, runs_left, env>>

\* the file a process holds open (fd: "none", or where that file now is:
\* at the temporary path, at the target path, or at no path any more) once
\* the file at the temporary path is renamed over the target
Renamed(r) ==
    [r EXCEPT !.fd = IF @ = "temp" THEN "target"
                     ELSE IF @ = "target" THEN "unlinked" ELSE @]

\* the same once the file at the temporary path is unlinked
Unlinked(r) == [r EXCEPT !.fd = IF @ = "temp" THEN "unlinked" ELSE @]

\* another process holds the same file open for writing
Shared(p) == \E q \in Procs \ {p} : run[q].fd = run[p].fd

\* save: open(temp_file, 'w') creates or truncates the temporary file
SaveOpen(p) ==
    /\ run[p].pc = "save_open"
    /\ \/ /\ temp_file' = Partial
          /\ \E created \in CreatedModes :
               env' = [env EXCEPT !.temp_mode =
                         IF temp_file = NoFile THEN created ELSE @]
          /\ run' = [run EXCEPT ![p] =
                       [Goto(@, "save_dump") EXCEPT !.fd = "temp"]]
       \/ /\ temp_file' = temp_file
          /\ env' = env
          /\ run' = [run EXCEPT ![p] = Goto(@, "save_except")]
    /\ UNCHANGED <<config_file, gists, next_id, clock, runs_left>>

\* save: json.dump, f.flush, os.fsync and the close of the file. The
\* record goes into the file that was opened, wherever a rename or an
\* unlink by another process has put it since; two processes writing into
\* the same file may leave a mix of their records in it
SaveDump(p) ==
    /\ run[p].pc = "save_dump"
    /\ \/ /\ \E written \in {run[p].new_config} \cup
                              (IF Shared(p) THEN {Corrupt} ELSE {}) :
               \/ /\ run[p].fd = "temp"
                  /\ temp_file' = written
                  /\ config_file' = config_file
               \/ /\ run[p].fd = "target"
                  /\ config_file' = written
                  /\ temp_file' = temp_file
               \/ /\ run[p].fd \notin {"temp", "target"}
                  /\ UNCHANGED <<config_file, temp_file>>
          /\ run' = [run EXCEPT ![p] =
                       [Goto(@, "save_replace") EXCEPT !.fd = "none"]]
       \/ /\ UNCHANGED <<config_file, temp_file>>
          /\ run' = [run EXCEPT ![p] =
                       [Goto(@, "save_except") EXCEPT !.fd = "none"]]
    /\ UNCHANGED <<gists, next_id, clock, runs_left, env>>

\* save: temp_file.replace(self.config_file), the rename over the target
SaveReplace(p) ==
    /\ run[p].pc = "save_replace"
    /\ \/ /\ temp_file # NoFile
          /\ config_file' = temp_file
          /\ temp_file' = NoFile
          /\ run' = [q \in Procs |->
                       IF q = p
                       THEN [Goto(run[q], "save_chmod") EXCEPT
                               !.renamed = temp_file]
                       ELSE Renamed(run[q])]
          /\ env' = [env EXCEPT !.mode = env.temp_mode,
                                !.temp_mode = "none"]
       \/ /\ UNCHANGED <<config_file, temp_file, env>>
          /\ run' = [run EXCEPT ![p] = Goto(@, "save_except")]
    /\ UNCHANGED <<gists, next_id, clock, runs_left>>

\* save: os.chmod(self.config_file, 0o600); then update returns and
\* run_backup returns EXIT_SUCCESS
SaveChmod(p) ==
    /\ run[p].pc = "save_chmod"
    /\ \/ /\ run' = [run EXCEPT ![p] = Return(@, EXIT_SUCCESS, "DONE")]
          /\ env' = [env EXCEPT !.done_hash = run[p].current_hash,
                                !.mode = "0600"]
       \/ /\ run' = [run EXCEPT ![p] = Goto(@, "save_except")]
          /\ env' = env
    /\ UNCHANGED <<config_file, temp_file, gists, next_id, clock, runs_left>>

\* save: `except Exception`: the temporary file is unlinked if it exists
\* (a failing unlink is passed over) and ConfigurationError is raised
SaveExcept(p) ==
    /\ run[p].pc = "save_except"
    /\ \/ /\ temp_file' = NoFile
          /\ run' = [q \in Procs |->
                       IF q = p THEN Raise(run[q], "ConfigurationError")
                       ELSE Unlinked(run[q])]
          /\ env' = [env EXCEPT !.write_failed = TRUE,
                                !.temp_mode = "none"]
       \/ /\ temp_file' = temp_file
          /\ run' = [run EXCEPT ![p] = Raise(@, "ConfigurationError")]
          /\ env' = [env EXCEPT !.write_failed = TRUE]
    /\ UNCHANGED <<config_file, gists, next_id, clock, runs_left>>

(* ----------------------------- environment ----------------------------- *)
\* someone other than run_backup rewrites the state file, with a key of
\* their own added or taken away
EditConfig ==
    /\ env.edits < MaxEdits
    /\ config_file' = [load(config_file) EXCEPT
                         !.extra = IF @ = None THEN ExtraVal ELSE None]
    /\ env' = [env EXCEPT !.edits = @ + 1,
                          !.mode = IF @ = "none" THEN "0644" ELSE @]
    /\ UNCHANGED <<temp_file, gists, next_id, clock, runs_left, run>>

\* the process dies in the middle of run_backup (killed, power lost): its
\* locals are gone, the files stay as the last completed step left them
Crash(p) ==
    /\ run[p].pc \notin {"idle", "returned", "crashed"}
    /\ run' = [run EXCEPT ![p] = [Goto(@, "crashed") EXCEPT !.fd = "none"]]
    /\ UNCHANGED <<config_file, temp_file, gists, next_id, clock, runs_left, env>>

\* the gist is deleted on the service by someone other than run_backup
DeleteGist ==
    /\ \E n \in Ids :
         /\ gists[n] # 0
         /\ gists' = [gists EXCEPT ![n] = 0]
    /\ env' = [env EXCEPT !.deleted = TRUE]
    /\ UNCHANGED <<config_file, temp_file, next_id, clock, runs_left, run>>

(* ---------------------------- specification ---------------------------- *)
\* one step of process p's run_backup
RunStep(p) ==
    \/ StartRun(p)
    \/ LoadConfig(p)
    \/ Authenticate(p)
    \/ Generate(p)
    \/ Compare(p)
    \/ DryRunGate(p)
    \/ Resolve(p)
    \/ UpdateGist(p)
    \/ CreateGist(p)
    \/ Persist(p)
    \/ SaveEnsureDir(p)
    \/ SaveOpen(p)
    \/ SaveDump(p)
    \/ SaveReplace(p)
    \/ SaveChmod(p)
    \/ SaveExcept(p)

\* runs of run_backup one after the other, as the scheduler starts them
Next == RunStep(1) \/ DeleteGist

Spec == Init /\ [][Next]_vars

\* the first run on a machine: no state file, no gist
InitFresh ==
    /\ config_file = NoFile
    /\ temp_file = NoFile
    /\ gists = NoGists
    /\ next_id = 1
    /\ clock = 0
    /\ runs_left = MaxFreshRuns
    /\ run = [p \in Procs |-> IdleRun]
    /\ env = EnvInit

SpecFresh == InitFresh /\ [][Next]_vars

\* the state file an earlier run left when it created gist 0
EarlierRecord ==
    Dict(GistId(0), HtmlUrl(0), _calculate_hash(1), Timestamp(0), None)

\* a machine whose credential sources stay as they are, with no state file
\* yet or with the state file and the gist a first run left
InitAuth ==
    /\ \/ config_file = NoFile /\ gists = NoGists
       \/ config_file = EarlierRecord /\ gists = [NoGists EXCEPT ![0] = 1]
    /\ temp_file = NoFile
    /\ next_id = 1
    /\ clock = 0
    /\ runs_left = MaxRuns
    /\ run = [p \in Procs |-> IdleRun]
    /\ env \in {[EnvFor(config_file) EXCEPT !.gh = cli, !.GITHUB_TOKEN = e] :
                   cli \in CliStates, e \in EnvStates}

SpecAuth == InitAuth /\ [][Next]_vars

\* a run and the run that follows it, from any state file
InitTwice ==
    /\ config_file \in PriorFiles
    /\ temp_file = NoFile
    /\ gists \in {NoGists} \cup
                 {[NoGists EXCEPT ![0] = c] :
                     c \in IF config_file.gist_id = GistId(0)
                           THEN Contents ELSE {}}
    /\ next_id = 1
    /\ clock = 0
    /\ runs_left = 2
    /\ run = [p \in Procs |-> IdleRun]
    /\ env = EnvFor(config_file)

SpecTwice == InitTwice /\ [][Next]_vars

\* no state file yet, or the state file and the gist a first run left
InitEdit ==
    /\ \/ config_file = NoFile /\ gists = NoGists
       \/ config_file = EarlierRecord /\ gists = [NoGists EXCEPT ![0] = 1]
    /\ temp_file = NoFile
    /\ next_id = 1
    /\ clock = 0
    /\ runs_left = MaxRuns
    /\ run = [p \in Procs |-> IdleRun]
    /\ env = EnvFor(config_file)

\* runs on a machine where the state file is not run_backup's alone
NextEdit == Next \/ EditConfig

SpecEdit == InitEdit /\ [][NextEdit]_vars

\* two processes on one machine, two runs in all, in any interleaving
NextConcurrent == RunStep(1) \/ RunStep(2)

\* both start on a machine with no state file and no gist: run together
\* they both create, run one after the other the second updates
InitConcurrent ==
    /\ config_file = NoFile
    /\ gists = NoGists
    /\ temp_file = NoFile
    /\ next_id = 1
    /\ clock = 0
    /\ runs_left = 2
    /\ run = [p \in Procs |-> IdleRun]
    /\ env = EnvFor(config_file)

SpecConcurrent == InitConcurrent /\ [][NextConcurrent]_vars

\* runs any of which may die at any step
NextCrash == Next \/ Crash(1)

SpecCrash == InitEdit /\ [][NextCrash]_vars

\* run_backup is straight-line code run by one thread: the statement the run
\* stands at is executed as soon as the one before it has returned, and each
\* call that blocks returns or raises within its timeout (5 s and 10 s for
\* the gh and brew probes, 60 s for the generator, 30 s for each request);
\* the scheduler starts the next run when one is due. What the other users
\* of the gist service do is under no such obligation
SpecLive == InitEdit /\ [][Next]_vars /\ WF_vars(RunStep(1))

(* ======================= properties of run_backup ====================== *)
\* the run passed through step pc
Reached(r, pc) == \E i \in DOMAIN r.trace : r.trace[i] = pc

\* the run passed through step pc and has left it
Passed(r, pc) == Reached(r, pc) /\ r.pc # pc

\* run_backup has returned
Ended(r) == r.pc = "returned"

\* the run has called op on the remote service
Invoked(r, op) == \E i \in DOMAIN r.calls : r.calls[i].op = op

\* the state the run found: what load makes of the file as it was
Prior(r) == load(r.before)

\* the credential was obtained and the Brewfile generated
Prepared(r) == Reached(r, "compare")

\* the step from which run_backup returned
LastStep(r) == r.trace[Len(r.trace) - 1]

(* ----------------------------------------------------------------------- *)
\* C1. Idempotent skip: when the hash stored in the state file equals the
\* hash of the Brewfile just generated and force is false, the run (its
\* credential and generation having succeeded) ends in SKIPPED with exit
\* code 0, has called none of exists / create / update, and the state file
\* is what it was before the run.
C1_IdempotentSkip ==
    \A p \in Procs :
      LET r == run[p] IN
        (/\ Passed(r, "compare")
         /\ ~r.force
         /\ Prior(r).last_hash = r.current_hash)
        => /\ Ended(r)
           /\ r.terminal = "SKIPPED"
           /\ r.exit_code = EXIT_SUCCESS
           /\ r.calls = <<>>
           /\ config_file = r.before

\* a run that found a state file naming a gist and the hash it generated
\* again, and was skipped
C1_Witness ==
    \E p \in Procs :
      /\ run[p].terminal = "SKIPPED"
      /\ ~run[p].force
      /\ run[p].before.kind = "dict"
      /\ run[p].before.gist_id = GistId(0)
      /\ run[p].before.last_hash = run[p].current_hash

(* ----------------------------------------------------------------------- *)
\* C2. Dry run leaves no trace: whatever the state file, the hashes and
\* force, a run with dry_run never calls create or update, never writes the
\* state file, and returns 0 when credential and generation succeeded.
C2_DryRunNoTrace ==
    \A p \in Procs :
      LET r == run[p] IN
        (r.dry_run /\ r.pc # "idle")
        => /\ ~Invoked(r, "create")
           /\ ~Invoked(r, "update")
           /\ config_file = r.before
           /\ ~Reached(r, "persist")
           /\ (Ended(r) /\ Prepared(r) => r.exit_code = EXIT_SUCCESS)

\* a dry run that would have uploaded: a gist is named, the hash differs
C2_Witness ==
    \E p \in Procs :
      /\ run[p].terminal = "SKIPPED_DRY_RUN"
      /\ run[p].before.gist_id = GistId(0)
      /\ run[p].before.last_hash # None
      /\ run[p].before.last_hash # run[p].current_hash

(* ----------------------------------------------------------------------- *)
\* the state file gives no gist id: the key is missing or holds ""
NoGistId(config) == config.gist_id \in {None, EmptyStr}

\* the hash comparison does not skip the run
NotSkipped(r) == r.force \/ Prior(r).last_hash # r.current_hash

\* C3 as stated (dry runs left aside). First run creates: when the prior
\* state has no gist id, the run reaches create whatever the hash comparison
\* and force say, also when a stored hash equals the new one and force is
\* false.
C3_Original ==
    \A p \in Procs :
      LET r == run[p] IN
        (Ended(r) /\ Prepared(r) /\ ~r.dry_run /\ NoGistId(Prior(r)))
        => Reached(r, "create")

\* C3, amended. When the prior state has no gist id, a run that is not
\* skipped by the hash comparison (the hashes differ, no hash is stored, or
\* force) and is not a dry run calls create, without any exists or update
\* call; a run that the comparison skips, or a dry run, calls nothing. On
\* success the state file holds the id and URL create returned and the new
\* hash.
C3_FirstRunCreates ==
    \A p \in Procs :
      LET r == run[p] IN
        (r.pc # "idle" /\ NoGistId(Prior(r)))
        => /\ ~Invoked(r, "exists") /\ ~Invoked(r, "update")
           /\ ~Reached(r, "update")
           /\ (Ended(r) /\ Prepared(r) /\ NotSkipped(r) /\ ~r.dry_run
                 => r.calls # <<>> /\ r.calls[1].op = "create")
           /\ (Ended(r) /\ Prepared(r) /\ ~NotSkipped(r)
                 => r.terminal = "SKIPPED" /\ r.calls = <<>>)
           /\ (Ended(r) /\ Prepared(r) /\ NotSkipped(r) /\ r.dry_run
                 => r.terminal = "SKIPPED_DRY_RUN" /\ r.calls = <<>>)
           /\ (r.terminal = "DONE"
                 => /\ r.calls[1].result = "ok"
                    /\ config_file.kind = "dict"
                    /\ config_file.gist_id = GistId(r.calls[1].id)
                    /\ config_file.gist_url = HtmlUrl(r.calls[1].id)
                    /\ config_file.last_hash = r.current_hash
                    /\ r.current_hash # None)

\* a state file with a hash and no gist id; the run created a gist
C3_Witness ==
    \E p \in Procs :
      /\ run[p].terminal = "DONE"
      /\ run[p].before.kind = "dict"
      /\ run[p].before.gist_id = EmptyStr
      /\ run[p].before.last_hash # None
      /\ Invoked(run[p], "create")

(* ----------------------------------------------------------------------- *)
\* C4. Stale reference recovers: the prior state names gist X, the run is
\* neither skipped nor a dry run, and exists(X) answers False: the run calls
\* create, never update, and does not end on the existence check; on
\* success the state file holds the id and URL create returned, the id
\* another one than X.
C4_StaleRecovers ==
    \A p \in Procs :
      LET r == run[p] IN
        /\ (Passed(r, "resolve") /\ ~NoGistId(Prior(r))
              => /\ r.calls # <<>>
                 /\ r.calls[1].op = "exists"
                 /\ GistId(r.calls[1].id) = Prior(r).gist_id)
        /\ (r.calls # <<>> /\ r.calls[1].op = "exists"
                           /\ r.calls[1].result = "False"
              => /\ Reached(r, "create")
                 /\ ~Reached(r, "update")
                 /\ ~Invoked(r, "update")
                 /\ (Ended(r) => Len(r.calls) = 2 /\ r.calls[2].op = "create")
                 /\ (r.terminal = "DONE"
                       => /\ r.calls[2].result = "ok"
                          /\ r.calls[2].id # r.calls[1].id
                          /\ config_file.gist_id = GistId(r.calls[2].id)
                          /\ config_file.gist_url = HtmlUrl(r.calls[2].id)
                          /\ config_file.gist_id # Prior(r).gist_id))

\* the gist the state file names is gone; the run created another one
C4_Witness ==
    \E p \in Procs :
      /\ run[p].terminal = "DONE"
      /\ run[p].before.gist_id = GistId(0)
      /\ Len(run[p].calls) = 2
      /\ run[p].calls[1] = Call("exists", 0, "False")
      /\ run[p].calls[2].op = "create"
      /\ gists[0] = 0

(* ----------------------------------------------------------------------- *)
\* C5. Update preserves id: the prior state names gist X, exists(X) answers
\* True, the hashes differ and the run is no dry run: the run calls update
\* on X and never create; on success the state file still names X, its URL
\* is the stored one if one was stored and the URL built from X otherwise,
\* and its hash is the new one.
C5_UpdatePreservesId ==
    \A p \in Procs :
      LET r == run[p] IN
        /\ (Ended(r) /\ Prepared(r) /\ ~NoGistId(Prior(r)) /\ ~r.dry_run
                     /\ Prior(r).last_hash # r.current_hash
              => Invoked(r, "exists"))
        /\ (r.calls # <<>> /\ r.calls[1].op = "exists"
                           /\ r.calls[1].result = "True"
              => /\ Reached(r, "update")
                 /\ ~Reached(r, "create")
                 /\ ~Invoked(r, "create")
                 /\ (Ended(r) => /\ Len(r.calls) = 2
                                 /\ r.calls[2].op = "update"
                                 /\ GistId(r.calls[2].id) = Prior(r).gist_id)
                 /\ (r.terminal = "DONE"
                       => /\ r.calls[2].result = "ok"
                          /\ config_file.gist_id = Prior(r).gist_id
                          /\ config_file.gist_url =
                               (IF Prior(r).gist_url # None
                                THEN Prior(r).gist_url
                                ELSE DefaultUrl(Prior(r).gist_id))
                          /\ config_file.last_hash = r.current_hash))

\* a changed Brewfile uploaded to the gist the state file names, the state
\* file holding a URL for it
C5_Witness ==
    \E p \in Procs :
      /\ run[p].terminal = "DONE"
      /\ ~run[p].force
      /\ run[p].before.gist_id = GistId(0)
      /\ run[p].before.gist_url = HtmlUrl(0)
      /\ run[p].before.last_hash # run[p].current_hash
      /\ run[p].calls = <<Call("exists", 0, "True"), Call("update", 0, "ok")>>
      /\ config_file.gist_url = HtmlUrl(0)

(* ----------------------------------------------------------------------- *)
\* C6 as stated. Force override: with force the run never ends in SKIPPED
\* on equal hashes and always goes on from the comparison into the
\* resolution of the target (the existence query when a gist id is stored).
C6_Original ==
    \A p \in Procs :
      LET r == run[p] IN
        (r.force /\ Ended(r) /\ Prepared(r))
        => r.terminal # "SKIPPED" /\ Reached(r, "resolve")

\* C6, amended. With force the run never ends in SKIPPED on equal hashes:
\* it always goes on from the comparison to the dry-run gate. Force changes
\* nothing after that: a dry run ends at the gate in SKIPPED (dry run)
\* before the target is resolved and without any remote call; any other run
\* resolves the target, querying exists exactly when a gist id is stored.
C6_ForceOverride ==
    \A p \in Procs :
      LET r == run[p] IN
        r.force
        => /\ r.terminal # "SKIPPED"
           /\ (Passed(r, "compare") => Reached(r, "dry_run"))
           /\ (Passed(r, "dry_run") /\ r.dry_run
                 => /\ r.terminal = "SKIPPED_DRY_RUN"
                    /\ r.exit_code = EXIT_SUCCESS
                    /\ r.calls = <<>>
                    /\ ~Reached(r, "resolve"))
           /\ (Passed(r, "dry_run") /\ ~r.dry_run => Reached(r, "resolve"))
           /\ (Passed(r, "resolve")
                 => (Invoked(r, "exists") <=> ~NoGistId(Prior(r))))

\* a forced run on an unchanged Brewfile that queried exists and uploaded
C6_Witness ==
    \E p \in Procs :
      /\ run[p].force
      /\ run[p].terminal = "DONE"
      /\ run[p].before.last_hash = run[p].current_hash
      /\ Invoked(run[p], "exists")

(* ----------------------------------------------------------------------- *)
\* the run ended because ConfigManager.save raised
WriteFailed(r) == Ended(r) /\ LastStep(r) \in {"save", "save_except"}

\* the last remote call of the run
LastCall(r) == r.calls[Len(r.calls)]

\* C7. Persist failure is isolated: when create or update succeeded on the
\* service and the state write that follows fails, run_backup returns
\* EXIT_CONFIG_ERROR (4), never EXIT_API_ERROR (3) and never 0.
C7_PersistFailureIsolated ==
    \A p \in Procs :
      LET r == run[p] IN
        WriteFailed(r)
        => /\ r.calls # <<>>
           /\ LastCall(r).op \in {"create", "update"}
           /\ LastCall(r).result = "ok"
           /\ r.exit_code = EXIT_CONFIG_ERROR
           /\ r.exit_code # EXIT_API_ERROR
           /\ r.exit_code # EXIT_SUCCESS

\* the gist was updated and the rename of the temporary file failed
C7_Witness ==
    \E p \in Procs :
      /\ WriteFailed(run[p])
      /\ Reached(run[p], "save_replace")
      /\ ~Reached(run[p], "save_chmod")
      /\ LastCall(run[p]) = Call("update", 0, "ok")
      /\ gists[0] = run[p].content

(* ----------------------------------------------------------------------- *)
\* C8. Every failure terminal leaves the state store untouched: after a run
\* that returns a non-zero exit code (authentication, generation, create or
\* update failure, or a failure at any step of save) the state file holds
\* what it held before the run.
C8_FailureLeavesStateUntouched ==
    \A p \in Procs :
      LET r == run[p] IN
        (Ended(r) /\ r.exit_code # EXIT_SUCCESS) => config_file = r.before

WellBehaved == ~env.write_failed /\ ~env.deleted /\ ~env.lied

\* C10 as stated. No duplicates across runs: from an empty state file, with
\* every state write succeeding, no deletion of the gist by someone else and
\* a truthful existence check, create is called at most once in total.
C10_Original == WellBehaved => env.creates <= 1

\* C10, amended. Under the same assumptions create succeeds at most once in
\* total: once a create call has returned an id, no run calls create again,
\* and every update is an update of that id. A create call that fails (API
\* error, or an answer without id) is followed by another create call in the
\* next run that uploads.
C10_NoDuplicates ==
    WellBehaved
    => /\ Cardinality(env.created) <= 1
       /\ \A p \in Procs : \A i \in DOMAIN run[p].calls :
            LET c == run[p].calls[i] IN
              /\ (c.op = "create" /\ env.created # {}
                    => c.result = "ok" /\ c.id \in env.created)
              /\ (c.op \in {"update", "exists"} => c.id \in env.created)
       /\ (env.created # {} /\ (\A p \in Procs : ~Reached(run[p], "persist")
                                                    \/ run[p].terminal = "DONE")
             => config_file.kind = "dict" /\ config_file.gist_id.k = "id"
                /\ config_file.gist_id.n \in env.created)

\* a run that created the gist, then a run that updated it
C10_Witness ==
    /\ WellBehaved
    /\ env.creates = 1
    /\ Cardinality(env.created) = 1
    /\ \E p \in Procs :
         /\ run[p].terminal = "DONE"
         /\ LastCall(run[p]).op = "update"
         /\ LastCall(run[p]).id \in env.created

(* ----------------------------------------------------------------------- *)
\* the steps of ConfigManager.save
SaveSteps ==
    {"save", "save_open", "save_dump", "save_replace", "save_chmod",
     "save_except"}

\* the process died while it was in ConfigManager.save
CrashedInSave(r) == r.pc = "crashed" /\ LastStep(r) \in SaveSteps

\* C11. Crash-safe state write: at every point of ConfigManager.save, and so
\* after a crash at any of them (before, during or after the writing of the
\* temporary file, before or after the rename, before or after chmod), the
\* state file is either what it was before the run or the complete new
\* record, never a partially written one: the old one up to the rename, the
\* new one after it.
C11_CrashSafeWrite ==
    \A p \in Procs :
      LET r == run[p] IN
        (r.pc \in SaveSteps \/ CrashedInSave(r))
        => /\ config_file.kind # "partial"
           /\ config_file \in {r.before, r.new_config}
           /\ r.new_config.kind = "dict"
           /\ (~Reached(r, "save_chmod") => config_file = r.before)
           /\ (Reached(r, "save_chmod") => config_file = r.new_config)

\* the second run died while it was writing the temporary file: that file
\* is half written, the state file is the record of the first run
C11_Witness ==
    \E p \in Procs :
      /\ CrashedInSave(run[p])
      /\ LastStep(run[p]) = "save_dump"
      /\ temp_file = Partial
      /\ run[p].before.kind = "dict"
      /\ config_file = run[p].before
      /\ config_file # run[p].new_config

(* ----------------------------------------------------------------------- *)
\* C12. The existence check never fails: gist_exists is True for a 200
\* answer and False for 404, any other status, a timeout and a network
\* error; it never raises: an exists call gives True or False, no run ends
\* on the existence check, and a run that was answered False goes on to
\* create (True: to update).
C12_ExistsNeverFails ==
    /\ \A resp \in Responses : gist_exists(resp) <=> (resp = "200")
    /\ \A n \in Ids : ExistsResponses(n) \subseteq Responses
    /\ \A p \in Procs :
         LET r == run[p] IN
           /\ \A i \in DOMAIN r.calls :
                r.calls[i].op = "exists"
                => /\ r.calls[i].result \in {"True", "False"}
                   /\ i = 1
                   /\ Reached(r, IF r.calls[i].result = "True"
                                  THEN "update" ELSE "create")
           /\ (Ended(r) => LastStep(r) # "resolve")
           /\ (Passed(r, "resolve")
                 => Reached(r, "create") \/ Reached(r, "update"))

\* the gist exists, the existence check was answered by something other than
\* 200 (a timeout, say) and so gave False: the run created a second gist
\* and ended in DONE
C12_Witness ==
    \E p \in Procs :
      /\ run[p].terminal = "DONE"
      /\ run[p].calls[1] = Call("exists", 0, "False")
      /\ run[p].calls[2] = Call("create", 1, "ok")
      /\ gists[0] # 0
      /\ env.lied /\ ~env.deleted

(* ----------------------------------------------------------------------- *)
\* C13. Credential priority: get_token returns the token of the gh CLI
\* whenever the CLI gives a non-empty one, whatever the environment variable
\* holds; it returns the token of GITHUB_TOKEN only when the CLI gives none
\* (gh missing, not authenticated, non-zero status, timeout, blank output)
\* and the variable is non-empty once stripped; it raises
\* AuthenticationError exactly when neither source gives a token, so a
\* failure of the CLI alone never ends the run.
C13_CredentialPriority ==
    \A p \in Procs :
      LET r == run[p] IN
        Passed(r, "auth")
        => /\ (env.gh = "token" => r.token = Val("gh_token", 0))
           /\ (r.token = Val("gh_token", 0) => env.gh = "token")
           /\ (r.token = Val("env_token", 0)
                 <=> env.gh # "token" /\ env.GITHUB_TOKEN = "token")
           /\ (r.terminal = "AuthenticationError"
                 <=> env.gh # "token" /\ env.GITHUB_TOKEN # "token")
           /\ (r.terminal = "AuthenticationError"
                 <=> r.token = None)
           /\ (r.terminal = "AuthenticationError"
                 => r.exit_code = EXIT_AUTH_ERROR /\ LastStep(r) = "auth")

\* `gh auth token` timed out and GITHUB_TOKEN is set: the run went on with
\* the token of the variable and uploaded
C13_Witness ==
    \E p \in Procs :
      /\ env.gh = "token_timeout"
      /\ env.GITHUB_TOKEN = "token"
      /\ run[p].token = Val("env_token", 0)
      /\ run[p].terminal = "DONE"

(* ----------------------------------------------------------------------- *)
\* no run is under way
Quiescent == \A p \in Procs : run[p].pc \in {"idle", "returned"}

\* some run so far had create_gist or update_gist succeed: from an empty
\* state file an update can only follow a create that returned an id
Uploaded == env.created # {}

\* C14. Persisted-state invariant: from an empty state file and with
\* run_backup the only writer, after any sequence of runs the state file
\* has gist_id, gist_url and last_hash all absent or all present; gist_id is
\* present exactly when some earlier run had create or update succeed; and
\* last_hash is the hash uploaded by the most recent run that ended in DONE.
C14_PersistedInvariant ==
    Quiescent
    => LET config == load(config_file) IN
         /\ config_file.kind \in {"absent", "dict"}
         /\ \/ config.gist_id = None /\ config.gist_url = None
                                     /\ config.last_hash = None
            \/ config.gist_id # None /\ config.gist_url # None
                                     /\ config.last_hash # None
         /\ (config.gist_id # None <=> Uploaded)
         /\ config.last_hash = env.done_hash

\* C14, the part on last_hash alone: after any sequence of runs it is the
\* hash uploaded by the most recent run that ended in DONE (none when no run
\* did).
C14_DigestOfLastDone ==
    Quiescent => load(config_file).last_hash = env.done_hash

\* C14, the part on the three keys alone: all absent or all present.
C14_AllOrNone ==
    LET config == load(config_file) IN
      /\ config_file.kind \in {"absent", "dict"}
      /\ \/ config.gist_id = None /\ config.gist_url = None
                                  /\ config.last_hash = None
         \/ config.gist_id # None /\ config.gist_url # None
                                  /\ config.last_hash # None

(* ----------------------------------------------------------------------- *)
\* the calls of create_gist and update_gist the run has made
Mutations(r) == {i \in DOMAIN r.calls : r.calls[i].op \in {"create", "update"}}

\* C15 as stated. No retry and no fallback after a failed mutation: a run
\* calls at most one of create and update, at most once; if that call fails
\* the run ends with exit code 3 and makes no further remote call.
C15_Original ==
    \A p \in Procs :
      LET r == run[p] IN
        /\ Cardinality(Mutations(r)) <= 1
        /\ \A i \in Mutations(r) :
             r.calls[i].result # "ok"
             => /\ Ended(r)
                /\ r.exit_code = EXIT_API_ERROR
                /\ i = Len(r.calls)

\* C15, amended. A run calls at most one of create and update, at most
\* once; if that call fails the run ends there, with no further remote call
\* and no state write: with exit code 3 when the call raised GistAPIError
\* (any answer but success, a timeout, a network error), with exit code 99
\* when create_gist was answered 201 without id or html_url. An update that
\* fails after exists answered True does not fall back to create.
C15_NoRetryNoFallback ==
    \A p \in Procs :
      LET r == run[p] IN
        /\ Cardinality(Mutations(r)) <= 1
        /\ \A i \in Mutations(r) :
             r.calls[i].result # "ok"
             => /\ Ended(r)
                /\ LastStep(r) = r.calls[i].op
                /\ i = Len(r.calls)
                /\ r.calls[i].result \in {"GistAPIError", "KeyError"}
                /\ (r.calls[i].result = "GistAPIError"
                      => r.exit_code = EXIT_API_ERROR)
                /\ (r.calls[i].result = "KeyError"
                      => r.exit_code = EXIT_UNKNOWN_ERROR
                         /\ r.calls[i].op = "create")
                /\ (r.calls[i].op = "update" => ~Reached(r, "create"))
                /\ ~Reached(r, "persist")
                /\ config_file = r.before

\* exists answered True, the gist was deleted before the update: the update
\* failed and the run ended with exit code 3, create not called
C15_Witness ==
    \E p \in Procs :
      /\ run[p].calls = <<Call("exists", 0, "True"),
                          Call("update", 0, "GistAPIError")>>
      /\ gists[0] = 0
      /\ env.deleted
      /\ run[p].exit_code = EXIT_API_ERROR
      /\ ~Reached(run[p], "create")

(* ----------------------------------------------------------------------- *)
\* C16 as stated. Dry-run gate position: a dry run that the hash comparison
\* does not skip first resolves its target (querying exists when the prior
\* state holds a gist id), reaches create or update, and only then ends in
\* SKIPPED (dry run), before the upload.
C16_Original ==
    \A p \in Procs :
      LET r == run[p] IN
        (r.dry_run /\ r.terminal = "SKIPPED_DRY_RUN")
        => /\ Reached(r, "resolve")
           /\ (~NoGistId(Prior(r)) => Invoked(r, "exists"))
           /\ (Reached(r, "create") \/ Reached(r, "update"))

\* C16, amended. A dry run that the hash comparison does not skip ends in
\* SKIPPED (dry run) at the gate that follows the comparison at once: before
\* the target is resolved, without an exists query even when the prior
\* state holds a gist id, and without reaching create or update.
C16_DryRunGatePosition ==
    \A p \in Procs :
      LET r == run[p] IN
        (r.dry_run /\ Passed(r, "compare") /\ NotSkipped(r))
        => /\ Reached(r, "dry_run")
           /\ (Passed(r, "dry_run")
                 => /\ Ended(r)
                    /\ r.terminal = "SKIPPED_DRY_RUN"
                    /\ LastStep(r) = "dry_run"
                    /\ r.trace[Len(r.trace) - 2] = "compare")
           /\ ~Reached(r, "resolve")
           /\ ~Reached(r, "create") /\ ~Reached(r, "update")
           /\ ~Invoked(r, "exists")
           /\ r.gist_id = None

\* a forced dry run on a state file that names an existing gist: it ended
\* at the gate, the gist was never looked up
C16_Witness ==
    \E p \in Procs :
      /\ run[p].dry_run /\ run[p].force
      /\ run[p].terminal = "SKIPPED_DRY_RUN"
      /\ LastStep(run[p]) = "dry_run"
      /\ run[p].before.gist_id = GistId(0)
      /\ gists[0] # 0
      /\ run[p].calls = <<>>

(* ----------------------------------------------------------------------- *)
\* the state file is there and cannot be read as a record: unreadable,
\* invalid JSON, or JSON that is no object
Unreadable(file) == file.kind = "corrupt"

\* C17 as stated. A state file that cannot be read (unreadable, invalid
\* JSON, not an object) is a state error: the run ends with exit code 4 and
\* calls neither create nor update, rather than going on as if there were no
\* prior backup.
C17_Original ==
    \A p \in Procs :
      LET r == run[p] IN
        (Unreadable(r.before) /\ Passed(r, "init"))
        => /\ Ended(r)
           /\ r.exit_code = EXIT_CONFIG_ERROR
           /\ Mutations(r) = {}

\* C17, amended. A state file that cannot be read is taken for an empty
\* one: load gives {} and the run goes on as if there were no prior backup.
\* It is never skipped by the hash comparison, queries no exists and calls
\* no update; unless it is a dry run it calls create, and on success the
\* unreadable file is replaced by the record of the new gist. Exit code 4
\* comes only from the directory check or from a failing state write.
C17_ReadFailureIsEmptyState ==
    \A p \in Procs :
      LET r == run[p] IN
        (Unreadable(r.before) /\ Passed(r, "init"))
        => /\ r.config = EmptyDict
           /\ r.terminal # "SKIPPED"
           /\ ~Invoked(r, "exists") /\ ~Invoked(r, "update")
           /\ (Ended(r) /\ Prepared(r) /\ ~r.dry_run
                 => r.calls # <<>> /\ r.calls[1].op = "create")
           /\ (r.terminal = "DONE"
                 => /\ config_file.kind = "dict"
                    /\ config_file.gist_id = GistId(r.calls[1].id)
                    /\ config_file.last_hash = r.current_hash
                    /\ config_file.extra = None)
           /\ (Ended(r) /\ r.exit_code = EXIT_CONFIG_ERROR
                 => LastStep(r) \in {"init", "save", "save_except"})

\* the state file was unreadable: the run created a gist and wrote a new
\* state file over it
C17_Witness ==
    \E p \in Procs :
      /\ Unreadable(run[p].before)
      /\ run[p].terminal = "DONE"
      /\ run[p].calls = <<Call("create", 1, "ok")>>
      /\ config_file.kind = "dict"
      /\ config_file.gist_id = GistId(1)

(* ----------------------------------------------------------------------- *)
\* C18 as stated. Wholesale replacement: the state file is read once, at
\* the start of the run; the record a successful run writes is built from
\* that prior state and the results of the run alone (gist_id, gist_url,
\* last_hash, last_backup) and does not depend on what the state file holds
\* at the moment of the write.
C18_Original ==
    \A p \in Procs :
      LET r == run[p] IN
        Reached(r, "save")
        => r.new_config = merge(Prior(r), r.gist_id, r.gist_url,
                                r.current_hash, Timestamp(clock))

\* C18, amended. The state file is read at the start of the run and read
\* again by ConfigManager.update when the run persists: the record written
\* is what the file holds at that moment ({} when it is missing or
\* unreadable) with gist_id, gist_url, last_hash and last_backup set to the
\* results of the run; every other key is kept as the file has it then.
C18_MergeAtWrite ==
    [][\A p \in Procs :
         (run[p].pc = "persist" /\ run'[p].pc # "persist")
         => /\ run'[p].pc = "save"
            /\ run'[p].new_config.kind = "dict"
            /\ run'[p].new_config.extra = load(config_file).extra
            /\ run'[p].new_config.gist_id = run[p].gist_id
            /\ run'[p].new_config.gist_url = run[p].gist_url
            /\ run'[p].new_config.last_hash = run[p].current_hash
            /\ run'[p].new_config.last_backup = Timestamp(clock)
            /\ config_file' = config_file]_vars

\* the state file got a key of someone else's after the run had read it:
\* the record the run wrote carries that key
C18_Witness ==
    \E p \in Procs :
      /\ run[p].terminal = "DONE"
      /\ run[p].before.kind = "dict"
      /\ run[p].config.extra = None
      /\ run[p].new_config.extra = ExtraVal
      /\ config_file = run[p].new_config

(* ----------------------------------------------------------------------- *)
\* the exists calls the run has made
ExistsCalls(r) == {i \in DOMAIN r.calls : r.calls[i].op = "exists"}

\* C19. Existence query discipline: a run queries exists at most once, only
\* for the gist id it read from the prior state, only after the hash
\* comparison decided not to skip, and never when the prior state has no
\* gist id (the key missing or empty).
C19_ExistsDiscipline ==
    \A p \in Procs :
      LET r == run[p] IN
        /\ Cardinality(ExistsCalls(r)) <= 1
        /\ \A i \in ExistsCalls(r) :
             /\ i = 1
             /\ Prior(r).gist_id.k = "id"
             /\ r.calls[i].id = Prior(r).gist_id.n
             /\ Passed(r, "compare")
             /\ NotSkipped(r)
             /\ r.terminal # "SKIPPED"
             /\ \E j, k \in DOMAIN r.trace :
                  j < k /\ r.trace[j] = "compare" /\ r.trace[k] = "resolve"
        /\ (NoGistId(Prior(r)) => ExistsCalls(r) = {})
        /\ (~Passed(r, "resolve") => ExistsCalls(r) = {})

\* a run on a changed Brewfile queried exists, once, for the stored gist
C19_Witness ==
    \E p \in Procs :
      /\ Ended(run[p])
      /\ ~run[p].force
      /\ run[p].before.gist_id = GistId(0)
      /\ run[p].before.last_hash # run[p].current_hash
      /\ ExistsCalls(run[p]) = {1}
      /\ run[p].calls[1].id = 0

(* ----------------------------------------------------------------------- *)
\* C20. Two-run idempotence: whatever the state file before, when a run
\* ended in DONE having uploaded a Brewfile of hash D, the run that follows
\* it, without force and generating a Brewfile of the same hash D, ends in
\* SKIPPED with exit code 0, makes no remote call and does not write the
\* state file.
C20_TwoRunIdempotence ==
    \A p \in Procs :
      LET r == run[p] IN
        (/\ env.prev_hash # None
         /\ ~r.force
         /\ Passed(r, "compare")
         /\ r.current_hash = env.prev_hash)
        => /\ Ended(r)
           /\ r.terminal = "SKIPPED"
           /\ r.exit_code = EXIT_SUCCESS
           /\ r.calls = <<>>
           /\ ~Reached(r, "persist")
           /\ config_file = r.before
           /\ config_file.last_hash = env.prev_hash

\* the first run created a gist and ended in DONE; the second run, the
\* Brewfile unchanged, was skipped
C20_Witness ==
    \E p \in Procs :
      /\ env.prev_hash # None
      /\ run[p].current_hash = env.prev_hash
      /\ ~run[p].force /\ ~run[p].dry_run
      /\ run[p].terminal = "SKIPPED"
      /\ runs_left = 0
      /\ env.creates = 1

(* ----------------------------------------------------------------------- *)
\* the gist the state file names holds the content whose hash the state
\* file holds
Agrees ==
    /\ config_file.kind = "dict"
    /\ config_file.gist_id.k = "id"
    /\ gists[config_file.gist_id.n] # 0
    /\ config_file.last_hash = Val("sha256", gists[config_file.gist_id.n])

\* C21 as stated. Remote/local agreement: with no change made to the gist
\* by anyone else, when a run has just ended in DONE the gist named by the
\* state file holds the content whose hash the state file holds; and after
\* any sequence of runs a hash in the state file never describes another
\* content than the one that gist holds.
C21_Original ==
    ~env.deleted
    => /\ \A p \in Procs : run[p].terminal = "DONE" => Agrees
       /\ (Quiescent /\ load(config_file).last_hash # None => Agrees)

\* C21, amended. With no change made to the gist by anyone else: when a run
\* has just ended in DONE, the gist named by the state file holds the
\* content the run uploaded, whose hash the state file holds. After any
\* sequence of runs the same holds as long as no run failed after its update
\* had reached the service: a run whose update was applied and whose state
\* write then failed (exit code 4), or whose update call raised although
\* the service applied it (exit code 3), leaves the gist with the new
\* content and the state file with the old hash.
C21_RemoteLocalAgreement ==
    ~env.deleted
    => /\ \A p \in Procs :
            run[p].terminal = "DONE"
            => /\ Agrees
               /\ gists[config_file.gist_id.n] = run[p].content
               /\ config_file.last_hash = run[p].current_hash
       /\ ((/\ Quiescent
            /\ load(config_file).last_hash # None
            /\ ~env.write_failed
            /\ ~env.unacked)
           => Agrees)

\* the second run updated the gist the first one created; gist and state
\* file agree on the new content
C21_Witness ==
    \E p \in Procs :
      /\ ~env.deleted
      /\ run[p].terminal = "DONE"
      /\ LastCall(run[p]).op = "update"
      /\ env.prev_hash # None
      /\ env.prev_hash # run[p].current_hash
      /\ Agrees
      /\ gists[config_file.gist_id.n] = run[p].content

(* ----------------------------------------------------------------------- *)
\* neither credential source of the machine gives a token
NoCredential == env.gh # "token" /\ env.GITHUB_TOKEN # "token"

\* C22 as stated. Credential acquisition precedes every decision: a run on
\* a machine where no credential can be obtained ends with exit code 1,
\* before the Brewfile is generated and before the hash comparison, dry run
\* or not, with no remote call and no state write.
C22_Original ==
    \A p \in Procs :
      LET r == run[p] IN
        (NoCredential /\ Ended(r))
        => /\ r.exit_code = EXIT_AUTH_ERROR
           /\ ~Reached(r, "generate") /\ ~Reached(r, "compare")
           /\ r.calls = <<>>
           /\ config_file = r.before

\* C22, amended. The credential is asked for right after the state
\* directory is prepared and the state file is loaded, before the Brewfile
\* is generated and before the hash comparison. On a machine where no
\* credential can be obtained a run never generates, compares, calls the
\* service or writes the state file, whatever force and dry_run are: it ends
\* with exit code 1 at the authentication, unless the state directory
\* could not be prepared, which ends it before that with exit code 4. A run
\* that generates holds a token.
C22_CredentialFirst ==
    \A p \in Procs :
      LET r == run[p] IN
        /\ (NoCredential /\ r.pc # "idle"
              => /\ ~Reached(r, "generate") /\ ~Reached(r, "compare")
                 /\ r.calls = <<>>
                 /\ config_file = r.before
                 /\ r.token = None
                 /\ (Passed(r, "auth")
                       => /\ Ended(r)
                          /\ r.exit_code = EXIT_AUTH_ERROR
                          /\ r.trace = <<"init", "auth", "returned">>)
                 /\ (Ended(r) /\ ~Reached(r, "auth")
                       => /\ r.exit_code = EXIT_CONFIG_ERROR
                          /\ r.trace = <<"init", "returned">>))
        /\ (Reached(r, "generate")
              => r.token # None /\ r.trace[2] = "auth")

\* gh is not logged in and GITHUB_TOKEN is blank: a forced dry run ended
\* with exit code 1 at the authentication
C22_Witness ==
    \E p \in Procs :
      /\ env.gh = "not_authenticated"
      /\ env.GITHUB_TOKEN = "blank"
      /\ run[p].dry_run /\ run[p].force
      /\ run[p].exit_code = EXIT_AUTH_ERROR
      /\ run[p].trace = <<"init", "auth", "returned">>

(* ----------------------------------------------------------------------- *)
\* the state file holds a complete record, or none
Complete == config_file.kind \in {"absent", "dict"}

\* gist_id, gist_url and last_hash of the state file are those of one run:
\* of a run still known, or of the record found at the start
FromOneRun ==
    \/ config_file \in {NoFile, EarlierRecord}
    \/ \E p \in Procs :
         \/ run[p].pc # "idle" /\ config_file = run[p].before
         \/ /\ Reached(run[p], "save")
            /\ config_file.gist_id = run[p].gist_id
            /\ config_file.gist_url = run[p].gist_url
            /\ config_file.last_hash = run[p].current_hash

\* the run renamed the record it had built over the state file
WriteTookEffect(r) == r.renamed = r.new_config

\* C23 as stated. Concurrent runs: when two runs are interleaved on one
\* state file, both using the same temporary file name, the state file
\* never holds a partially written record, nor a record whose gist_id,
\* gist_url and last_hash come from different runs, and a run whose state
\* write did not take effect does not return exit code 0.
C23_Original ==
    /\ Complete
    /\ (config_file.kind = "dict" => FromOneRun)
    /\ \A p \in Procs :
         (Reached(run[p], "persist") /\ Ended(run[p])
                                     /\ ~WriteTookEffect(run[p]))
         => run[p].exit_code # EXIT_SUCCESS

\* C23, amended. Concurrent runs are not coordinated. When two runs are
\* interleaved on one state file and one temporary file name, the state
\* file can hold a truncated or mixed-up record (one run opens, and so
\* truncates, the temporary file the other is about to rename, or both
\* write into it), and a run can return exit code 0 having renamed over the
\* target something other than its own record. What holds: a complete
\* record in the state file has its gist_id, gist_url and last_hash from
\* one run; a run that returns 0 from its upload did rename a file over the
\* target; and as long as the second process stays idle all three parts of
\* the statement above hold.
C23_ConcurrentRuns ==
    /\ (config_file.kind = "dict" => FromOneRun)
    /\ \A p \in Procs :
         run[p].terminal = "DONE" => run[p].renamed # NoFile
    /\ (run[2].pc = "idle"
          => /\ Complete
             /\ (run[1].terminal = "DONE" => WriteTookEffect(run[1])))

\* one run truncated the temporary file the other then renamed: the second
\* returned 0 having put a truncated file at the target, the first wrote its
\* record into that file and returned 4
C23_Witness ==
    \E p, q \in Procs :
      /\ p # q
      /\ run[p].terminal = "DONE"
      /\ run[p].renamed = Partial
      /\ run[q].exit_code = EXIT_CONFIG_ERROR
      /\ config_file = run[q].new_config
      /\ config_file # run[p].new_config

(* ----------------------------------------------------------------------- *)
\* C24. Owner-only permissions: from the rename that puts a new record at
\* the path of the state file, the permissions of the state file are 0600;
\* in no reachable state is the new record at that path with wider
\* permissions.
C24_OwnerOnly ==
    \A p \in Procs :
      (Reached(run[p], "save_chmod") /\ config_file = run[p].new_config)
      => env.mode = "0600"

(* ----------------------------------------------------------------------- *)
\* the terminals of a run: the three that return EXIT_SUCCESS and one for
\* each class of exception run_backup's except clauses end on
Terminals ==
    {"SKIPPED", "SKIPPED_DRY_RUN", "DONE", "AuthenticationError",
     "BrewfileGenerationError", "GistAPIError", "ConfigurationError",
     "KeyError"}

\* the run has passed through no step twice
NoStepTwice(r) ==
    \A i, j \in DOMAIN r.trace : r.trace[i] = r.trace[j] => i = j

\* the run is in a terminal exactly when it has returned, the return is the
\* last step of its traversal and it carries the exit code of the terminal
OneTerminal(r) ==
    /\ (r.terminal # "none") <=> Ended(r)
    /\ \A i \in DOMAIN r.trace :
         r.trace[i] = "returned" => i = Len(r.trace)
    /\ Ended(r) =>
         /\ r.terminal \in Terminals
         /\ r.exit_code =
              (IF r.terminal \in {"SKIPPED", "SKIPPED_DRY_RUN", "DONE"}
               THEN EXIT_SUCCESS
               ELSE CASE r.terminal = "AuthenticationError" -> EXIT_AUTH_ERROR
                      [] r.terminal = "BrewfileGenerationError" -> EXIT_BREW_ERROR
                      [] r.terminal = "GistAPIError" -> EXIT_API_ERROR
                      [] r.terminal = "ConfigurationError" -> EXIT_CONFIG_ERROR
                      [] OTHER -> EXIT_UNKNOWN_ERROR)
    /\ ~Ended(r) => r.exit_code = NoExit

\* C25. Termination in one terminal: when every blocking call returns or
\* raises, a run that has started eventually returns; at every moment it
\* has passed through no step twice, and when it has returned it is in
\* exactly one terminal (SKIPPED, SKIPPED(dry-run), DONE or one failure
\* kind) with the exit code of that terminal.
C25_Termination ==
    /\ [](NoStepTwice(run[1]) /\ OneTerminal(run[1]))
    /\ (run[1].pc \notin {"idle", "returned"}) ~> Ended(run[1])

\* a run that created a gist and wrote its record went through every step
\* of the longest traversal once and ended in DONE
C25_Witness ==
    /\ run[1].terminal = "DONE"
    /\ Reached(run[1], "create")
    /\ Reached(run[1], "save_chmod")
    /\ NoStepTwice(run[1])
    /\ LastStep(run[1]) = "save_chmod"

====
